---------------------------- MODULE Spec2Model ----------------------------
(***************************************************************************)
(* Academic-progress dashboard: schema resolver (auto_detect_schema),      *)
(* normalizer (normalize_data / get_score), schema selection of app.py     *)
(* with the AI delegate (detect_schema_with_ai), and the aggregator        *)
(* (compute_kpis, compute_instructor_performance, compute_risk_factors,    *)
(* build_ai_summary).                                                      *)
(*                                                                         *)
(* Text is modelled as a sequence of one-character strings, so that        *)
(* lower(), strip(), the regular-expression filter and the substring test  *)
(* are computed character by character.  Python's None and a missing cell  *)
(* (NaN) are the one-element sequences <<"None">> and <<"NaN">>, which no   *)
(* text equals.  SCORE is kept in halves (Score2 = 2 * SCORE), so that     *)
(* 0.0, 0.5, 1.0 are 0, 1, 2 and means are compared exactly.               *)
(***************************************************************************)
EXTENDS Integers, Sequences, FiniteSets, TLC

VARIABLES pc, df_raw, api_key, ai_result, schema, df, kpis, perf, risks, summary

vars == <<pc, df_raw, api_key, ai_result, schema, df, kpis, perf, risks, summary>>

-----------------------------------------------------------------------------
(* Text literals *)
Str_campus == <<"c","a","m","p","u","s">>  \* "campus"
Str_location == <<"l","o","c","a","t","i","o","n">>  \* "location"
Str_center == <<"c","e","n","t","e","r">>  \* "center"
Str_branch == <<"b","r","a","n","c","h">>  \* "branch"
Str_university == <<"u","n","i","v","e","r","s","i","t","y">>  \* "university"
Str_instructor == <<"i","n","s","t","r","u","c","t","o","r">>  \* "instructor"
Str_faculty == <<"f","a","c","u","l","t","y">>  \* "faculty"
Str_trainer == <<"t","r","a","i","n","e","r">>  \* "trainer"
Str_teacher == <<"t","e","a","c","h","e","r">>  \* "teacher"
Str_mentor == <<"m","e","n","t","o","r">>  \* "mentor"
Str_subject == <<"s","u","b","j","e","c","t">>  \* "subject"
Str_course == <<"c","o","u","r","s","e">>  \* "course"
Str_module == <<"m","o","d","u","l","e">>  \* "module"
Str_section == <<"s","e","c","t","i","o","n">>  \* "section"
Str_batch == <<"b","a","t","c","h">>  \* "batch"
Str_group == <<"g","r","o","u","p">>  \* "group"
Str_class == <<"c","l","a","s","s">>  \* "class"
Str_hall == <<"h","a","l","l">>  \* "hall"
Str_status == <<"s","t","a","t","u","s">>  \* "status"
Str_progress == <<"p","r","o","g","r","e","s","s">>  \* "progress"
Str_completion == <<"c","o","m","p","l","e","t","i","o","n">>  \* "completion"
Str_state == <<"s","t","a","t","e">>  \* "state"
Str_remarks == <<"r","e","m","a","r","k","s">>  \* "remarks"
Str_week == <<"w","e","e","k">>  \* "week"
Str_target == <<"t","a","r","g","e","t">>  \* "target"
Str_session == <<"s","e","s","s","i","o","n">>  \* "session"
Str_day == <<"d","a","y">>  \* "day"
Str_expected == <<"e","x","p","e","c","t","e","d">>  \* "expected"
Str_done == <<"d","o","n","e">>  \* "done"
Str_completed == <<"c","o","m","p","l","e","t","e","d">>  \* "completed"
Str_finished == <<"f","i","n","i","s","h","e","d">>  \* "finished"
Str_yes == <<"y","e","s">>  \* "yes"
Str_y == <<"y">>  \* "y"
Str_1 == <<"1">>  \* "1"
Str_1_0 == <<"1",".","0">>  \* "1.0"
Str_in_progress == <<"i","n"," ","p","r","o","g","r","e","s","s">>  \* "in progress"
Str_ongoing == <<"o","n","g","o","i","n","g">>  \* "ongoing"
Str_started == <<"s","t","a","r","t","e","d">>  \* "started"
Str_wip == <<"w","i","p">>  \* "wip"
Str_nan == <<"n","a","n">>  \* "nan"
Str_Unknown == <<"U","n","k","n","o","w","n">>  \* "Unknown"
Str_SCORE == <<"S","C","O","R","E">>  \* "SCORE"
Str_CAMPUS == <<"C","A","M","P","U","S">>  \* "CAMPUS"
Str_INSTRUCTOR == <<"I","N","S","T","R","U","C","T","O","R">>  \* "INSTRUCTOR"
Str_SUBJECT == <<"S","U","B","J","E","C","T">>  \* "SUBJECT"
Str_SECTION == <<"S","E","C","T","I","O","N">>  \* "SECTION"
Str_STATUS == <<"S","T","A","T","U","S">>  \* "STATUS"
Str_WEEK == <<"W","E","E","K">>  \* "WEEK"
Str_Center == <<"C","e","n","t","e","r">>  \* "Center"
Str_Trainer_Name == <<"T","r","a","i","n","e","r"," ","N","a","m","e">>  \* "Trainer Name"
Str_Module == <<"M","o","d","u","l","e">>  \* "Module"
Str_Batch_No == <<"B","a","t","c","h"," ","N","o">>  \* "Batch No"
Str_Current_State == <<"C","u","r","r","e","n","t"," ","S","t","a","t","e">>  \* "Current State"
Str_Week_No == <<"W","e","e","k"," ","N","o">>  \* "Week No"
Str_Status == <<"S","t","a","t","u","s">>  \* "Status"
Str_Expected_Progress == <<"E","x","p","e","c","t","e","d"," ","P","r","o","g","r","e","s","s">>  \* "Expected Progress"
Str_Completion_Target == <<"C","o","m","p","l","e","t","i","o","n"," ","T","a","r","g","e","t">>  \* "Completion Target"
Str_Course_Status == <<"C","o","u","r","s","e"," ","S","t","a","t","u","s">>  \* "Course Status"
Str_Notes == <<"N","o","t","e","s">>  \* "Notes"
Str_University == <<"U","n","i","v","e","r","s","i","t","y">>  \* "University"
Str_Campus == <<"C","a","m","p","u","s">>  \* "Campus"
Str_Re_marks == <<"R","e","-","m","a","r","k","s">>  \* "Re-marks"
Str_Progress == <<"P","r","o","g","r","e","s","s">>  \* "Progress"
Str_Mentor == <<"M","e","n","t","o","r">>  \* "Mentor"
Str_pending == <<"p","e","n","d","i","n","g">>  \* "pending"
Str_done_dot == <<"d","o","n","e",".">>  \* "done."
Str_inprogress == <<"i","n","p","r","o","g","r","e","s","s">>  \* "inprogress"
Str_complete == <<"c","o","m","p","l","e","t","e">>  \* "complete"
Str_no == <<"n","o">>  \* "no"
Str_0 == <<"0">>  \* "0"
Str_2 == <<"2">>  \* "2"
Str_0_5 == <<"0",".","5">>  \* "0.5"
Str_true == <<"t","r","u","e">>  \* "true"
Str_in__progress == <<"i","n"," "," ","p","r","o","g","r","e","s","s">>  \* "in  progress"
Str_empty == <<>>  \* ""
Str_Done_padded == <<" ","D","o","n","e"," ">>  \* " Done "
Str_In_Progress == <<"I","n"," ","P","r","o","g","r","e","s","s">>  \* "In Progress"
Str_Pending == <<"P","e","n","d","i","n","g">>  \* "Pending"
Str_Done == <<"D","o","n","e">>  \* "Done"
Str_WIP == <<"W","I","P">>  \* "WIP"
Str_Math == <<"M","a","t","h">>  \* "Math"
Str_Lab == <<"L","a","b">>  \* "Lab"
Str_Asha == <<"A","s","h","a">>  \* "Asha"
Str_Ravi == <<"R","a","v","i">>  \* "Ravi"
Str_North == <<"N","o","r","t","h">>  \* "North"
Str_South == <<"S","o","u","t","h">>  \* "South"
Str_Not_Started == <<"N","o","t"," ","S","t","a","r","t","e","d">>  \* "Not Started"

-----------------------------------------------------------------------------
(* Characters and text operations *)

UpperChars == <<"A","B","C","D","E","F","G","H","I","J","K","L","M","N","O","P","Q","R","S","T","U","V","W","X","Y","Z">>
LowerChars == <<"a","b","c","d","e","f","g","h","i","j","k","l","m","n","o","p","q","r","s","t","u","v","w","x","y","z">>
DigitChars == <<"0","1","2","3","4","5","6","7","8","9">>
Whitespace == {" ", "\t", "\n"}

Range(s) == {s[i] : i \in 1..Len(s)}

Min(S) == CHOOSE x \in S : \A y \in S : x <= y

None == <<"None">>
NaN == <<"NaN">>

LowerOf == [c \in Range(UpperChars) |-> LowerChars[CHOOSE i \in 1..Len(UpperChars) : UpperChars[i] = c]]
UpperOf == [c \in Range(LowerChars) |-> UpperChars[CHOOSE i \in 1..Len(LowerChars) : LowerChars[i] = c]]

\* str.lower() on one character
LowerChar(c) == IF c \in DOMAIN LowerOf THEN LowerOf[c] ELSE c

\* str.upper() on one character
UpperChar(c) == IF c \in DOMAIN UpperOf THEN UpperOf[c] ELSE c

PyLower(s) == [i \in 1..Len(s) |-> LowerChar(s[i])]
PyUpper(s) == [i \in 1..Len(s) |-> UpperChar(s[i])]

\* str.strip(): leading and trailing whitespace removed
PyStrip(s) ==
    LET keep == {i \in 1..Len(s) : s[i] \notin Whitespace}
    IN  IF keep = {} THEN <<>>
        ELSE SubSeq(s, Min(keep), CHOOSE i \in keep : \A j \in keep : j <= i)

\* str(value): a missing cell prints as nan, a number as its digits
\* (an integer cell is <<"int", digits...>>, a float cell <<"float", digits...>>)
PyStr(v) ==
    IF v = NaN THEN Str_nan
    ELSE IF Len(v) > 0 /\ v[1] \in {"int", "float"} THEN Tail(v)
    ELSE v

\* k in s for two texts
Contains(k, s) ==
    \E i \in 0..(Len(s) - Len(k)) : SubSeq(s, i + 1, i + Len(k)) = k

\* the characters the pattern [^a-zA-Z0-9] leaves
AlnumChars == Range(UpperChars) \cup Range(LowerChars) \cup Range(DigitChars)

IsAlnum(c) == c \in AlnumChars

normalize_header(header) == SelectSeq(PyLower(PyStr(header)), IsAlnum)

-----------------------------------------------------------------------------
(* Schema resolver: auto_detect_schema *)

RoleKeys == <<Str_campus, Str_instructor, Str_subject, Str_section, Str_status, Str_week>>

campus_keywords == <<Str_campus, Str_location, Str_center, Str_branch, Str_university>>
inst_keywords == <<Str_instructor, Str_faculty, Str_trainer, Str_teacher, Str_mentor>>
subject_keywords == <<Str_subject, Str_course, Str_module>>
section_keywords == <<Str_section, Str_batch, Str_group, Str_class, Str_hall>>
status_keywords == <<Str_status, Str_progress, Str_completion, Str_state, Str_remarks>>
week_keywords == <<Str_week, Str_target, Str_session, Str_day>>

AnyKeyword(keywords, norm) == \E i \in 1..Len(keywords) : Contains(keywords[i], norm)

\* normalized_cols = {c: normalize_header(c) for c in cols}, in column order
NormalizedCols(cols) == [i \in 1..Len(cols) |-> normalize_header(cols[i])]

\* the same loop without its break: the last matching column stays
LastColumn(cols, matched) ==
    LET hits == {i \in 1..Len(cols) : matched[i]}
    IN  IF hits = {} THEN None ELSE cols[CHOOSE i \in hits : \A j \in hits : j <= i]

\* the loop "for col, norm in normalized_cols.items(): if <test>: ...; break",
\* where matched[i] is the outcome of the test for column i
FirstColumn(cols, matched) ==
    LET hits == {i \in 1..Len(cols) : matched[i]}
    IN  IF hits = {} THEN None ELSE cols[Min(hits)]

CampusTest(norm) == AnyKeyword(campus_keywords, norm)
InstructorTest(norm) == AnyKeyword(inst_keywords, norm)
SubjectTest(norm) == AnyKeyword(subject_keywords, norm)
SectionTest(norm) == AnyKeyword(section_keywords, norm)
\* the status test without the check for "target"
StatusTest_expected_only(norm) ==
    /\ AnyKeyword(status_keywords, norm)
    /\ ~Contains(Str_expected, norm)

StatusTest(norm) ==
    /\ AnyKeyword(status_keywords, norm)
    /\ ~Contains(Str_expected, norm)
    /\ ~Contains(Str_target, norm)
WeekTest(norm) == AnyKeyword(week_keywords, norm)

\* A dict is the sequence of its <<key, value>> items in insertion order.
PyDict(items) == [kind |-> "dict", items |-> items]
PyNone == [kind |-> "None", items |-> <<>>]

auto_detect_schema(cols) ==
    LET norms == NormalizedCols(cols)
    IN  PyDict(<< <<Str_campus, FirstColumn(cols, [i \in 1..Len(cols) |-> CampusTest(norms[i])])>>,
                  <<Str_instructor, FirstColumn(cols, [i \in 1..Len(cols) |-> InstructorTest(norms[i])])>>,
                  <<Str_subject, FirstColumn(cols, [i \in 1..Len(cols) |-> SubjectTest(norms[i])])>>,
                  <<Str_section, FirstColumn(cols, [i \in 1..Len(cols) |-> SectionTest(norms[i])])>>,
                  <<Str_status, FirstColumn(cols, [i \in 1..Len(cols) |-> StatusTest(norms[i])])>>,
                  <<Str_week, FirstColumn(cols, [i \in 1..Len(cols) |-> WeekTest(norms[i])])>> >>)

\* schema_map[key], None when the key is absent
DictGet(d, key) ==
    IF \E i \in 1..Len(d.items) : d.items[i][1] = key
    THEN d.items[CHOOSE i \in 1..Len(d.items) : d.items[i][1] = key][2]
    ELSE None

-----------------------------------------------------------------------------
(* Normalizer: normalize_data and get_score *)

\* A table: the column labels in order, the rows (each a sequence of cells in
\* column order) and, once normalized, the SCORE column in halves.
Frame(columns, rows, score) == [columns |-> columns, rows |-> rows, SCORE |-> score]
NoFrame == Frame(<<>>, <<>>, <<>>)

required_keys == <<Str_CAMPUS, Str_INSTRUCTOR, Str_SUBJECT, Str_SECTION, Str_STATUS, Str_WEEK>>

done_words == {Str_done, Str_completed, Str_finished, Str_yes, Str_y, Str_1, Str_1_0}
progress_words == {Str_in_progress, Str_ongoing, Str_started, Str_wip}

\* get_score without strip()
get_score_unstripped(status_val) ==
    LET s == PyLower(PyStr(status_val))
    IN  IF s \in done_words THEN 2
        ELSE IF s \in progress_words THEN 1
        ELSE 0

\* get_score, in halves: 2 for 1.0, 1 for 0.5, 0 for 0.0
get_score(status_val) ==
    LET s == PyStrip(PyLower(PyStr(status_val)))
    IN  IF s \in done_words THEN 2
        ELSE IF s \in progress_words THEN 1
        ELSE 0

\* a JSON list or object as a dict value: not hashable
Unhashable == <<"list">>

\* rename_dict = { v: k.upper() for k, v in schema_map.items() if v is not None }
\* read at column c: a later item with the same value replaces an earlier one
RenameOf(items, c) ==
    LET hits == {i \in 1..Len(items) : items[i][2] = c /\ items[i][2] # None}
    IN  IF hits = {} THEN c
        ELSE PyUpper(items[CHOOSE i \in hits : \A j \in hits : j <= i][1])

\* df.rename(columns=rename_dict): labels that are no key stay, keys that are no
\* label are ignored
RenameColumns(columns, items) == [i \in 1..Len(columns) |-> RenameOf(items, columns[i])]

\* for k in required_keys: if k not in normalized_df.columns: normalized_df[k] = "Unknown"
MissingKeys(columns) == SelectSeq(required_keys, LAMBDA k : k \notin Range(columns))

Backfill(frame) ==
    LET missing == MissingKeys(frame.columns)
    IN  Frame(frame.columns \o missing,
              [r \in 1..Len(frame.rows) |->
                  frame.rows[r] \o [j \in 1..Len(missing) |-> Str_Unknown]],
              frame.SCORE)

ColumnsNamed(frame, name) == {i \in 1..Len(frame.columns) : frame.columns[i] = name}

\* normalized_df['SCORE'] = normalized_df['STATUS'].apply(get_score)
\* With one STATUS column the selection is a Series and get_score is applied to
\* each cell.  With several columns labelled STATUS the selection is a DataFrame:
\* apply calls get_score once per column (the text of a whole column is no
\* status word, so each result is 0.0) and returns a Series indexed by the
\* duplicated label.  Assigning it to a column of a table that has rows raises
\* ValueError (the duplicated index cannot be aligned with the rows); a table
\* without rows takes the Series' index as its rows, one all-missing row per
\* STATUS column.
ApplyScore(frame) ==
    LET idx == ColumnsNamed(frame, Str_STATUS)
    IN  IF Cardinality(idx) = 1
        THEN [raised |-> "",
              frame |-> Frame(frame.columns, frame.rows,
                              [r \in 1..Len(frame.rows) |->
                                  get_score(frame.rows[r][CHOOSE i \in idx : TRUE])])]
        ELSE IF Len(frame.rows) = 0
        THEN [raised |-> "",
              frame |-> Frame(frame.columns,
                              [r \in 1..Cardinality(idx) |->
                                  [j \in 1..Len(frame.columns) |-> NaN]],
                              [r \in 1..Cardinality(idx) |-> 0])]
        ELSE [raised |-> "ValueError", frame |-> NoFrame]

normalize_data(raw, schema_map) ==
    IF schema_map.kind # "dict"
    THEN [raised |-> "AttributeError", frame |-> NoFrame]
    ELSE IF \E i \in 1..Len(schema_map.items) : schema_map.items[i][2] = Unhashable
    THEN [raised |-> "TypeError", frame |-> NoFrame]
    ELSE ApplyScore(Backfill(Frame(RenameColumns(raw.columns, schema_map.items),
                                   raw.rows, <<>>)))

-----------------------------------------------------------------------------
(* AI schema delegate and the schema selection of app.py *)

\* A parsed JSON value other than an object keeps its elements in items, each
\* paired with itself, so that every value has the same shape; it is falsy
\* exactly when items is empty ([], "", 0), as is None.
PyList(elems) == [kind |-> "list", items |-> [i \in 1..Len(elems) |-> <<elems[i], elems[i]>>]]
PyText(chars) == [kind |-> "str", items |-> [i \in 1..Len(chars) |-> <<<<chars[i]>>, <<chars[i]>>>>]]

Truthy(v) == v.kind # "None" /\ v.items # <<>>

\* What the service does with one request: the client cannot be built, the call
\* fails, the content is no JSON, or the content is the JSON text of value.
Reply(kind, value) == [kind |-> kind, value |-> value]

\* detect_schema_with_ai: get_groq_client is called before the try block, so its
\* exception leaves the function; every exception of the call and of json.loads
\* is caught and None returned.
detect_schema_with_ai(reply) ==
    IF reply.kind = "client_error" THEN [raised |-> TRUE, value |-> PyNone]
    ELSE IF reply.kind \in {"api_error", "not_json"} THEN [raised |-> FALSE, value |-> PyNone]
    ELSE [raised |-> FALSE, value |-> reply.value]

\* schema = None; if api_key: try: schema = detect_schema_with_ai(...) except Exception: ...
AttemptAI(key, reply) ==
    IF ~key THEN PyNone
    ELSE IF detect_schema_with_ai(reply).raised THEN PyNone
    ELSE detect_schema_with_ai(reply).value

\* if not schema: schema = auto_detect_schema(df_raw)
select_schema(raw, key, reply) ==
    IF Truthy(AttemptAI(key, reply)) THEN AttemptAI(key, reply)
    ELSE auto_detect_schema(raw.columns)

NotCalled == [called |-> FALSE, reply |-> Reply("none", PyNone)]

-----------------------------------------------------------------------------
(* Aggregator helpers: column access, grouping, means, rounding *)

\* code points of the characters used, in increasing order (str comparison)
CharOrder == <<"\t", "\n", " ", "-", ".">> \o DigitChars \o UpperChars \o <<"_">> \o LowerChars

CharCode(c) == CHOOSE i \in 1..Len(CharOrder) : CharOrder[i] = c

\* a < b for two texts (lexicographic by code point)
TextLess(a, b) ==
    LET n == IF Len(a) < Len(b) THEN Len(a) ELSE Len(b)
        d == {i \in 1..n : a[i] # b[i]}
    IN  IF d = {} THEN Len(a) < Len(b)
        ELSE CharCode(a[Min(d)]) < CharCode(b[Min(d)])

RECURSIVE SortedTexts(_)
\* the group keys of a groupby, which sorts them
SortedTexts(S) ==
    IF S = {} THEN <<>>
    ELSE LET m == CHOOSE x \in S : \A y \in S \ {x} : TextLess(x, y)
         IN  <<m>> \o SortedTexts(S \ {m})

PairLess(p, q) == TextLess(p[1], q[1]) \/ (p[1] = q[1] /\ TextLess(p[2], q[2]))

RECURSIVE SortedPairs(_)
SortedPairs(S) ==
    IF S = {} THEN <<>>
    ELSE LET m == CHOOSE x \in S : \A y \in S \ {x} : PairLess(x, y)
         IN  <<m>> \o SortedPairs(S \ {m})

RowIds(frame) == 1..Len(frame.rows)

\* df[name] (name labels exactly one column of a canonical table)
Column(frame, name) ==
    LET i == CHOOSE c \in ColumnsNamed(frame, name) : TRUE
    IN  [r \in 1..Len(frame.rows) |-> frame.rows[r][i]]

\* df.empty: no rows or no columns
IsEmpty(frame) == Len(frame.rows) = 0 \/ Len(frame.columns) = 0

\* the distinct values of a column, missing cells left out (nunique, groupby keys)
Unique(col) == Range(col) \ {NaN}

\* the rows of one group
RowsWith(col, key) == {r \in 1..Len(col) : col[r] = key}

RECURSIVE SumScore2(_, _)
\* the sum of SCORE over the rows R, in halves
SumScore2(score, R) ==
    IF R = {} THEN 0
    ELSE LET r == CHOOSE x \in R : TRUE
         IN  score[r] + SumScore2(score, R \ {r})

\* mean SCORE of the rows R < tenths / 10, for the sum in halves:
\* sum2 / (2 * n) < tenths / 10
MeanBelow(score, R, tenths) == 5 * SumScore2(score, R) < Cardinality(R) * tenths

\* num / den rounded to an integer, ties to even (round() of numpy and Python)
RoundHalfEven(num, den) ==
    LET q == num \div den
        r == num % den
    IN  IF 2 * r < den THEN q
        ELSE IF 2 * r > den THEN q + 1
        ELSE IF q % 2 = 0 THEN q ELSE q + 1

\* (sum / count * 100) rounded to 1 decimal, as the number of tenths of a percent;
\* a division by zero gives nan (0/0) or inf
Pct(sum2, count) ==
    IF count = 0
    THEN [kind |-> IF sum2 = 0 THEN "nan" ELSE "inf", tenths |-> 0]
    ELSE [kind |-> "num", tenths |-> RoundHalfEven(sum2 * 500, count)]

-----------------------------------------------------------------------------
(* Aggregator: compute_kpis, compute_risk_factors *)

EmptyDict == [k \in {} |-> 0]

KpiRiskTenths == 5
CampusRiskTenths == 6
InstructorRiskTenths == 5

\* the groups of groupby(name) whose mean SCORE is below tenths / 10, keys sorted
GroupsBelow(frame, name, tenths) ==
    LET col == Column(frame, name)
    IN  SelectSeq(SortedTexts(Unique(col)),
                  LAMBDA k : MeanBelow(frame.SCORE, RowsWith(col, k), tenths))

\* compute_kpis counting the instructors below the campus threshold
compute_kpis_campus_threshold(frame) ==
    [num_campuses |-> Cardinality(Unique(Column(frame, Str_CAMPUS))),
     num_instructors |-> Cardinality(Unique(Column(frame, Str_INSTRUCTOR))),
     num_subjects |-> Cardinality(Unique(Column(frame, Str_SUBJECT))),
     global_completion |-> Pct(SumScore2(frame.SCORE, RowIds(frame)), Len(frame.rows)),
     at_risk_instructors |-> Len(GroupsBelow(frame, Str_INSTRUCTOR, CampusRiskTenths))]

compute_kpis_nonempty(frame) ==
    [num_campuses |-> Cardinality(Unique(Column(frame, Str_CAMPUS))),
     num_instructors |-> Cardinality(Unique(Column(frame, Str_INSTRUCTOR))),
     num_subjects |-> Cardinality(Unique(Column(frame, Str_SUBJECT))),
     global_completion |-> Pct(SumScore2(frame.SCORE, RowIds(frame)), Len(frame.rows)),
     at_risk_instructors |-> Len(GroupsBelow(frame, Str_INSTRUCTOR, KpiRiskTenths))]

\* compute_kpis without its guard for the empty table
compute_kpis_unguarded(frame) == compute_kpis_nonempty(frame)

compute_kpis(frame) ==
    IF IsEmpty(frame) THEN EmptyDict ELSE compute_kpis_nonempty(frame)

\* compute_risk_factors with the instructor threshold for campuses as well
compute_risk_factors_unified(frame) ==
    IF IsEmpty(frame) THEN [campuses |-> <<>>, instructors |-> <<>>]
    ELSE [campuses |-> GroupsBelow(frame, Str_CAMPUS, InstructorRiskTenths),
          instructors |-> GroupsBelow(frame, Str_INSTRUCTOR, InstructorRiskTenths)]

compute_risk_factors(frame) ==
    IF IsEmpty(frame) THEN [campuses |-> <<>>, instructors |-> <<>>]
    ELSE [campuses |-> GroupsBelow(frame, Str_CAMPUS, CampusRiskTenths),
          instructors |-> GroupsBelow(frame, Str_INSTRUCTOR, InstructorRiskTenths)]

-----------------------------------------------------------------------------
(* Aggregator: compute_instructor_performance *)

\* label_status with a strict comparison at the upper boundary
label_status_strict(pct) ==
    IF pct.kind = "nan" THEN "Critical"
    ELSE IF pct.kind = "inf" THEN "On Track"
    ELSE IF pct.tenths > 800 THEN "On Track"
    ELSE IF pct.tenths >= 500 THEN "Delayed"
    ELSE "Critical"

\* label_status (the labels' trailing symbols are left out)
label_status(pct) ==
    IF pct.kind = "nan" THEN "Critical"
    ELSE IF pct.kind = "inf" THEN "On Track"
    ELSE IF pct.tenths >= 800 THEN "On Track"
    ELSE IF pct.tenths >= 500 THEN "Delayed"
    ELSE "Critical"

\* groupby(['INSTRUCTOR', 'CAMPUS']): rows with a missing key belong to no group
PairKeys(inst, camp) ==
    {<<inst[r], camp[r]>> : r \in {x \in 1..Len(inst) : inst[x] # NaN /\ camp[x] # NaN}}

PairRows(inst, camp, key) ==
    {r \in 1..Len(inst) : inst[r] = key[1] /\ camp[r] = key[2]}

\* Total_Items=('SUBJECT', 'count'): the rows of the group whose SUBJECT is present
\* Completed_Score_Sum=('SCORE', 'sum'), in halves
GroupRow(R, subj, score, key) ==
    LET items == Cardinality({r \in R : subj[r] # NaN})
        sum2 == SumScore2(score, R)
    IN  [INSTRUCTOR |-> key[1], CAMPUS |-> key[2],
         Total_Items |-> items,
         Completed_Score_Sum |-> sum2,
         Completion_Pct |-> Pct(sum2, items),
         Status |-> label_status(Pct(sum2, items))]

\* the order of sort_values(ascending=True): numbers, then inf, nan last
PctLess(p, q) ==
    LET rank(x) == IF x.kind = "num" THEN 0 ELSE IF x.kind = "inf" THEN 1 ELSE 2
    IN  \/ rank(p) < rank(q)
        \/ rank(p) = 0 /\ rank(q) = 0 /\ p.tenths < q.tenths

RECURSIVE SortByPct(_)
\* rows with equal Completion_Pct keep their group order
SortByPct(rows) ==
    IF rows = <<>> THEN <<>>
    ELSE LET m == CHOOSE i \in 1..Len(rows) :
                    /\ \A j \in 1..Len(rows) : ~PctLess(rows[j].Completion_Pct, rows[i].Completion_Pct)
                    /\ \A j \in 1..(i - 1) : PctLess(rows[i].Completion_Pct, rows[j].Completion_Pct)
         IN  <<rows[m]>> \o SortByPct(SubSeq(rows, 1, m - 1) \o SubSeq(rows, m + 1, Len(rows)))

\* compute_instructor_performance without the final sort_values
compute_instructor_performance_unsorted(frame) ==
    IF IsEmpty(frame) THEN <<>>
    ELSE LET inst == Column(frame, Str_INSTRUCTOR)
             camp == Column(frame, Str_CAMPUS)
             subj == Column(frame, Str_SUBJECT)
             keys == SortedPairs(PairKeys(inst, camp))
         IN  [i \in 1..Len(keys) |->
                 GroupRow(PairRows(inst, camp, keys[i]), subj, frame.SCORE, keys[i])]

compute_instructor_performance(frame) ==
    IF IsEmpty(frame) THEN <<>>
    ELSE LET inst == Column(frame, Str_INSTRUCTOR)
             camp == Column(frame, Str_CAMPUS)
             subj == Column(frame, Str_SUBJECT)
             keys == SortedPairs(PairKeys(inst, camp))
         IN  SortByPct([i \in 1..Len(keys) |->
                          GroupRow(PairRows(inst, camp, keys[i]), subj, frame.SCORE, keys[i])])

-----------------------------------------------------------------------------
(* Aggregator: build_ai_summary *)

PreviewRows == 5
SummaryRiskTenths == 5

\* df[df['SCORE'] < 0.5], as the row numbers in table order
RiskRowIds(frame) ==
    SelectSeq([r \in 1..Len(frame.rows) |-> r],
              LAMBDA r : 10 * frame.SCORE[r] < 2 * SummaryRiskTenths)

cols_to_keep == <<Str_INSTRUCTOR, Str_CAMPUS, Str_SUBJECT, Str_SECTION, Str_STATUS>>

\* at_risk_items without head(5)
at_risk_items_uncapped(frame) ==
    LET ids == RiskRowIds(frame)
        kept == SelectSeq(cols_to_keep, LAMBDA c : ColumnsNamed(frame, c) # {})
        cells == [j \in 1..Len(kept) |-> Column(frame, kept[j])]
    IN  [i \in 1..Len(ids) |-> [j \in 1..Len(kept) |-> cells[j][ids[i]]]]

\* risk_df[cols_to_keep].head(5).to_dict(orient='records'): each record is the
\* sequence of the kept columns' cells, in cols_to_keep order
at_risk_items(frame) ==
    LET ids == RiskRowIds(frame)
        kept == SelectSeq(cols_to_keep, LAMBDA c : ColumnsNamed(frame, c) # {})
        cells == [j \in 1..Len(kept) |-> Column(frame, kept[j])]
        n == IF Len(ids) < PreviewRows THEN Len(ids) ELSE PreviewRows
    IN  [i \in 1..n |-> [j \in 1..Len(kept) |-> cells[j][ids[i]]]]

\* df['STATUS'].value_counts().to_dict(): the count of each present value
status_distribution(frame) ==
    LET col == Column(frame, Str_STATUS)
    IN  {<<v, Cardinality(RowsWith(col, v))>> : v \in Unique(col)}

build_ai_summary(frame, context) ==
    IF IsEmpty(frame)
    THEN [context |-> context, error |-> "No data available in current filter"]
    ELSE [context |-> context,
          total_records |-> Len(frame.rows),
          average_completion_pct |-> Pct(SumScore2(frame.SCORE, RowIds(frame)), Len(frame.rows)),
          status_distribution |-> status_distribution(frame),
          at_risk_preview |-> at_risk_items(frame),
          risk_count |-> Len(RiskRowIds(frame)),
          unique_instructors |-> Cardinality(Unique(Column(frame, Str_INSTRUCTOR))),
          unique_campuses |-> Cardinality(Unique(Column(frame, Str_CAMPUS)))]
         @@ (IF ColumnsNamed(frame, Str_SECTION) # {}
             THEN [active_sections |-> Cardinality(Unique(Column(frame, Str_SECTION)))]
             ELSE EmptyDict)

-----------------------------------------------------------------------------
(* Inputs *)

MaxCols == 3
MaxRawRows == 2
MaxAggRows == 6

\* sequences of at most n elements of S
SeqsUpTo(S, n) == UNION {[1..k -> S] : k \in 0..n}

\* column lists without repeated labels (read_csv and read_excel make labels unique)
Injective(s) == \A i, j \in 1..Len(s) : i # j => s[i] # s[j]

ExampleColumns == <<Str_Center, Str_Trainer_Name, Str_Module, Str_Batch_No, Str_Current_State, Str_Week_No>>

ResolverPool ==
    {Str_Center, Str_Trainer_Name, Str_Module, Str_Batch_No, Str_Current_State,
     Str_Week_No, Str_Status, Str_Expected_Progress, Str_Completion_Target,
     Str_Course_Status, Str_Notes, Str_University, Str_Campus, Str_Re_marks}

ResolverColumnLists ==
    {s \in SeqsUpTo(ResolverPool, MaxCols) : Injective(s)} \cup {ExampleColumns}

\* raw tables of two columns; row s holds two consecutive values of ValueCycle
NormColumnLists ==
    {<<Str_Current_State, Str_Center>>, <<Str_Progress, Str_STATUS>>,
     <<Str_Course_Status, Str_Mentor>>}

ValueCycle == <<Str_Done_padded, Str_In_Progress, NaN, Str_Pending>>

RawRowPool ==
    {[j \in 1..2 |-> ValueCycle[((s + j - 2) % Len(ValueCycle)) + 1]] : s \in 1..Len(ValueCycle)}

NormTables ==
    {Frame(c, r, <<>>) : c \in NormColumnLists, r \in SeqsUpTo(RawRowPool, MaxRawRows)}

\* every assignment of the six roles to a column of the table or to None
RoleMappings(cols) ==
    {PyDict([i \in 1..Len(RoleKeys) |-> <<RoleKeys[i], f[i]>>]) :
        f \in [1..Len(RoleKeys) -> Range(cols) \cup {None}]}

\* status cells: each text as written, upper-cased, padded with blanks, padded
\* with a tab and a newline; and numeric and missing cells
StatusTexts ==
    done_words \cup progress_words \cup
    {Str_pending, Str_empty, Str_Not_Started, Str_done_dot, Str_inprogress,
     Str_complete, Str_no, Str_0, Str_2, Str_0_5, Str_true, Str_nan, Str_in__progress}

StatusCells ==
    UNION {{t, PyUpper(t), <<" ">> \o t \o <<" ">>, <<"\t">> \o t \o <<"\n">>} : t \in StatusTexts}
    \cup {NaN, <<"int", "1">>, <<"int", "0">>, <<"float", "1", ".", "0">>,
          <<"float", "0", ".", "5">>}

StatusTables == {Frame(<<Str_Status>>, <<<<v>>>>, <<>>) : v \in StatusCells}

\* what the delegate can answer for a table with the columns cols
FullShape(f) == PyDict([i \in 1..Len(RoleKeys) |-> <<RoleKeys[i], f[i]>>])

Replies(cols) ==
    {Reply("client_error", PyNone), Reply("api_error", PyNone), Reply("not_json", PyNone),
     Reply("json", PyNone), Reply("json", PyDict(<<>>)),
     Reply("json", PyList(<<>>)), Reply("json", PyList(<<cols[1]>>)),
     Reply("json", PyText(cols[1])),
     Reply("json", FullShape(<<None, None, None, None, None, None>>)),
     Reply("json", FullShape(<<None, None, None, None, cols[1], None>>)),
     Reply("json", FullShape(<<cols[1], None, None, None, cols[2], None>>)),
     Reply("json", FullShape(<<Unhashable, None, None, None, cols[1], None>>)),
     Reply("json", PyDict(<< <<Str_status, cols[2]>> >>)),
     Reply("json", PyDict(<< <<Str_campus, cols[1]>>, <<Str_Campus, cols[2]>> >>))}

\* canonical tables for the aggregator: raw rows of trainer, center, module, state
AggColumns == <<Str_Trainer_Name, Str_Center, Str_Module, Str_Current_State>>

AggRowPool ==
    {<<Str_Asha, Str_North, Str_Math, Str_Done>>,
     <<Str_Asha, Str_North, Str_Lab, Str_Pending>>,
     <<Str_Ravi, Str_North, NaN, Str_WIP>>,
     <<NaN, Str_South, Str_Math, Str_Not_Started>>}

AggTables == {Frame(AggColumns, r, <<>>) : r \in SeqsUpTo(AggRowPool, MaxAggRows)}

\* the heuristic resolver's mapping for these columns
AggSchema == auto_detect_schema(AggColumns)

Contexts == {"overall", "instructor"}

\* canonical tables for compute_instructor_performance: groups whose key order
\* differs from their Completion_Pct order, rows with a missing SUBJECT inside
\* and outside a group with other rows, and a row with a missing INSTRUCTOR
MaxPerfRows == 4

PerfRowPool ==
    {<<Str_Asha, Str_North, Str_Math, Str_Done>>,
     <<Str_Asha, Str_North, NaN, Str_WIP>>,
     <<Str_Ravi, Str_North, Str_Lab, Str_Pending>>,
     <<Str_Ravi, Str_North, Str_Math, Str_WIP>>,
     <<Str_Ravi, Str_South, NaN, Str_Pending>>,
     <<NaN, Str_South, Str_Math, Str_Done>>}

PerfTables == {Frame(AggColumns, r, <<>>) : r \in SeqsUpTo(PerfRowPool, MaxPerfRows)}

\* Completion_Pct values for label_status: every one-decimal value from 0.0 to
\* MaxPctTenths / 10, a quotient by zero (inf, nan), and the column of the four
\* boundary values 80.0, 79.9, 50.0, 49.9
MaxPctTenths == 1000

Num(tenths) == [kind |-> "num", tenths |-> tenths]

PctValues ==
    {Num(t) : t \in 0..MaxPctTenths} \cup {Pct(1, 0), Pct(0, 0)}

BoundaryPcts == <<Num(800), Num(799), Num(500), Num(499)>>

PctColumns == {<<p>> : p \in PctValues} \cup {BoundaryPcts}

-----------------------------------------------------------------------------
(* State machine *)

NotComputed == [pending |-> TRUE]

\* app.py, step 2: the schema is the delegate's answer when a key is given and the
\* answer is truthy, the heuristic resolver's otherwise
SchemaSelection ==
    /\ pc = "loaded"
    /\ \E reply \in (IF api_key THEN Replies(df_raw.columns) ELSE {NotCalled.reply}) :
          /\ schema' = select_schema(df_raw, api_key, reply)
          /\ ai_result' = [called |-> api_key, reply |-> reply]
    /\ pc' = "schema"
    /\ UNCHANGED <<df_raw, api_key, df, kpis, perf, risks, summary>>

\* df = normalize_data(df_raw, schema); an exception ends the run
Normalize ==
    /\ pc = "schema"
    /\ LET r == normalize_data(df_raw, schema)
       IN  /\ df' = r.frame
           /\ pc' = IF r.raised = "" THEN "normalized" ELSE "fatal"
    /\ UNCHANGED <<df_raw, api_key, ai_result, schema, kpis, perf, risks, summary>>

\* each canonical label names exactly one column
CanonicalFrame(frame) ==
    \A i \in 1..Len(required_keys) : Cardinality(ColumnsNamed(frame, required_keys[i])) = 1

\* the filters and the four aggregator calls of app.py on the table.  When a
\* canonical label names several columns the selection df[label] is a table,
\* not a column (df['CAMPUS'].unique() raises AttributeError), and the run ends
Aggregate ==
    /\ pc = "normalized"
    /\ \E context \in Contexts :
          IF CanonicalFrame(df)
          THEN /\ kpis' = compute_kpis(df)
               /\ perf' = compute_instructor_performance(df)
               /\ risks' = compute_risk_factors(df)
               /\ summary' = build_ai_summary(df, context)
               /\ pc' = "aggregated"
          ELSE /\ pc' = "fatal"
               /\ UNCHANGED <<kpis, perf, risks, summary>>
    /\ UNCHANGED <<df_raw, api_key, ai_result, schema, df>>

InitCommon ==
    /\ df = NoFrame
    /\ kpis = NotComputed
    /\ perf = NotComputed
    /\ risks = NotComputed
    /\ summary = NotComputed

\* the resolver alone: column labels, no key
InitResolver ==
    /\ pc = "loaded"
    /\ df_raw \in {Frame(c, <<>>, <<>>) : c \in ResolverColumnLists}
    /\ api_key = FALSE
    /\ ai_result = NotCalled
    /\ schema = PyNone
    /\ InitCommon

SpecResolver == InitResolver /\ [][SchemaSelection]_vars

\* the normalizer alone: any table with any role mapping
InitNormalize ==
    /\ pc = "schema"
    /\ api_key = FALSE
    /\ ai_result = NotCalled
    /\ \/ /\ df_raw \in NormTables
          /\ schema \in RoleMappings(df_raw.columns)
       \/ /\ df_raw \in StatusTables
          /\ schema = auto_detect_schema(df_raw.columns)
    /\ InitCommon

SpecNormalize == InitNormalize /\ [][Normalize]_vars

\* one upload: schema selection, normalization, aggregation
Init ==
    /\ pc = "loaded"
    /\ df_raw \in NormTables
    /\ api_key \in BOOLEAN
    /\ ai_result = NotCalled
    /\ schema = PyNone
    /\ InitCommon

Next == SchemaSelection \/ Normalize \/ Aggregate

Spec == Init /\ [][Next]_vars

\* the aggregator on canonical tables
InitAggregate ==
    /\ pc = "normalized"
    /\ df_raw \in AggTables
    /\ api_key = FALSE
    /\ ai_result = NotCalled
    /\ schema = AggSchema
    /\ df = normalize_data(df_raw, schema).frame
    /\ kpis = NotComputed
    /\ perf = NotComputed
    /\ risks = NotComputed
    /\ summary = NotComputed

SpecAggregate == InitAggregate /\ [][Aggregate]_vars

\* compute_instructor_performance on tables with missing keys and subjects
InitPerformance ==
    /\ pc = "normalized"
    /\ df_raw \in PerfTables
    /\ api_key = FALSE
    /\ ai_result = NotCalled
    /\ schema = AggSchema
    /\ df = normalize_data(df_raw, schema).frame
    /\ kpis = NotComputed
    /\ perf = NotComputed
    /\ risks = NotComputed
    /\ summary = NotComputed

SpecPerformance == InitPerformance /\ [][Aggregate]_vars

\* grouped['Status'] = grouped['Completion_Pct'].apply(label_status), on a
\* grouped table of which only the Completion_Pct column is given
InitLabel ==
    /\ pc = "pct"
    /\ df_raw = NoFrame
    /\ api_key = FALSE
    /\ ai_result = NotCalled
    /\ schema = PyNone
    /\ perf \in {[i \in 1..Len(c) |-> [Completion_Pct |-> c[i]]] : c \in PctColumns}
    /\ df = NoFrame
    /\ kpis = NotComputed
    /\ risks = NotComputed
    /\ summary = NotComputed

Label ==
    /\ pc = "pct"
    /\ perf' = [i \in 1..Len(perf) |->
                  [Completion_Pct |-> perf[i].Completion_Pct,
                   Status |-> label_status(perf[i].Completion_Pct)]]
    /\ pc' = "labelled"
    /\ UNCHANGED <<df_raw, api_key, ai_result, schema, df, kpis, risks, summary>>

\* the labels of the performance table: of computed tables and of given
\* Completion_Pct columns
SpecLabel == (InitPerformance \/ InitLabel) /\ [][Aggregate \/ Label]_vars

-----------------------------------------------------------------------------
(* Claims about the normalizer, checked under SpecNormalize *)

\* C1: for every raw table and every role mapping normalize_data returns a
\* table with exactly the raw table's rows, in the same order; no row is
\* dropped or added.
C1_RowsPreserved ==
    pc # "schema" =>
        /\ pc = "normalized"
        /\ Len(df.rows) = Len(df_raw.rows)
        /\ \A r \in 1..Len(df_raw.rows) :
              SubSeq(df.rows[r], 1, Len(df_raw.columns)) = df_raw.rows[r]

\* the cells of the raw column named v, one per row
RawColumn(v) ==
    [r \in 1..Len(df_raw.rows) |->
        df_raw.rows[r][CHOOSE i \in 1..Len(df_raw.columns) : df_raw.columns[i] = v]]

\* C2: after normalize_data every row has the six canonical fields; the field
\* of a role mapped to a column of the raw table holds the row's value of that
\* column (also when two roles share a column), and the field of an unset role
\* holds "Unknown".
C2_CanonicalFields ==
    pc = "normalized" =>
        \A i \in 1..Len(RoleKeys) :
            LET v == DictGet(schema, RoleKeys[i])
                fields == ColumnsNamed(df, required_keys[i])
            IN  /\ fields # {}
                /\ \A r \in 1..Len(df_raw.rows) : \A c \in fields :
                      /\ (v # None /\ v \in Range(df_raw.columns))
                            => df.rows[r][c] = RawColumn(v)[r]
                      /\ v = None => df.rows[r][c] = Str_Unknown

\* C3: SCORE of every row of the normalized table is 1.0, 0.5 or 0.0 (2, 1, 0
\* halves) and is decided by the trimmed, lower-cased text of the row's STATUS
\* alone: 1.0 for done, completed, finished, yes, y, 1, 1.0; 0.5 for in
\* progress, ongoing, started, wip; 0.0 for every other value.
C3_ScoreFromStatus ==
    pc = "normalized" =>
        /\ Len(df.SCORE) = Len(df.rows)
        /\ \A r \in 1..Len(df.rows) : \A c \in ColumnsNamed(df, Str_STATUS) :
              LET text == PyStrip(PyLower(PyStr(df.rows[r][c])))
              IN  /\ df.SCORE[r] \in {0, 1, 2}
                  /\ df.SCORE[r] = 2 <=>
                        text \in {Str_done, Str_completed, Str_finished, Str_yes,
                                  Str_y, Str_1, Str_1_0}
                  /\ df.SCORE[r] = 1 <=>
                        text \in {Str_in_progress, Str_ongoing, Str_started, Str_wip}

\* a padded, capitalised status word scored 1.0 beside an unrecognised or
\* missing value scored 0.0
C3_Witness ==
    /\ pc = "normalized"
    /\ Len(df.rows) = 2
    /\ \E c \in ColumnsNamed(df, Str_STATUS) :
          /\ df.rows[1][c] = Str_Done_padded /\ df.SCORE[1] = 2
          /\ df.rows[2][c] = NaN /\ df.SCORE[2] = 0

-----------------------------------------------------------------------------
(* Claims about the schema resolver, checked under SpecResolver *)

RoleKeywords ==
    <<campus_keywords, inst_keywords, subject_keywords, section_keywords,
      status_keywords, week_keywords>>

\* the columns a keyword list matches, for the normalized column names
KeywordColumns(norms, keywords) ==
    {j \in 1..Len(norms) : \E k \in 1..Len(keywords) : Contains(keywords[k], norms[j])}

\* the columns whose normalized name contains "expected" or "target"
ExcludedColumns(norms) ==
    {j \in 1..Len(norms) :
        Contains(Str_expected, norms[j]) \/ Contains(Str_target, norms[j])}

ResolvedTo(candidates, i) ==
    DictGet(schema, RoleKeys[i]) =
        IF candidates = {} THEN None ELSE df_raw.columns[Min(candidates)]

ExampleResolved ==
    df_raw.columns = ExampleColumns =>
        schema = PyDict(<< <<Str_campus, Str_Center>>, <<Str_instructor, Str_Trainer_Name>>,
                           <<Str_subject, Str_Module>>, <<Str_section, Str_Batch_No>>,
                           <<Str_status, Str_Current_State>>, <<Str_week, Str_Week_No>> >>)

\* C4 as stated: each of the six roles is mapped to the first column, in column
\* order, whose normalized name contains any keyword of the role, and is unset
\* exactly when no column does.
C4_FirstKeywordColumn ==
    pc = "schema" =>
        LET norms == NormalizedCols(df_raw.columns)
        IN  /\ \A i \in 1..Len(RoleKeys) :
                  ResolvedTo(KeywordColumns(norms, RoleKeywords[i]), i)
            /\ ExampleResolved

\* C4 as amended: the same, where for the status role the columns whose
\* normalized name contains "expected" or "target" are no candidates.
C4_FirstCandidateColumn ==
    pc = "schema" =>
        LET norms == NormalizedCols(df_raw.columns)
        IN  /\ \A i \in 1..Len(RoleKeys) :
                  ResolvedTo(IF RoleKeys[i] = Str_status
                             THEN KeywordColumns(norms, RoleKeywords[i]) \ ExcludedColumns(norms)
                             ELSE KeywordColumns(norms, RoleKeywords[i]), i)
            /\ ExampleResolved

\* a role matched by its last keyword in the first column and by its first
\* keyword in the second, one column claimed by two roles, and unset roles
C4_Witness ==
    /\ pc = "schema"
    /\ df_raw.columns = <<Str_University, Str_Campus, Str_Course_Status>>
    /\ DictGet(schema, Str_campus) = Str_University
    /\ DictGet(schema, Str_subject) = Str_Course_Status
    /\ DictGet(schema, Str_status) = Str_Course_Status
    /\ DictGet(schema, Str_week) = None

\* C5: the status role is never mapped to a column whose normalized name
\* contains "expected" or "target"; such a column is skipped and the scan goes
\* on, so with the columns Status and Expected Progress in either order the
\* role resolves to Status, and it is unset when every status-keyword column
\* is excluded.
C5_StatusExclusion ==
    pc = "schema" =>
        LET s == DictGet(schema, Str_status)
            norms == NormalizedCols(df_raw.columns)
        IN  /\ s # None =>
                  /\ ~Contains(Str_expected, normalize_header(s))
                  /\ ~Contains(Str_target, normalize_header(s))
            /\ (s = None) <=> (KeywordColumns(norms, status_keywords) \subseteq ExcludedColumns(norms))
            /\ Range(df_raw.columns) = {Str_Status, Str_Expected_Progress} => s = Str_Status

\* an excluded column stands first and the scan reaches the column after it
C5_Witness ==
    /\ pc = "schema"
    /\ df_raw.columns = <<Str_Completion_Target, Str_Expected_Progress, Str_Status>>
    /\ DictGet(schema, Str_status) = Str_Status
    /\ DictGet(schema, Str_week) = Str_Completion_Target

-----------------------------------------------------------------------------
(* Claims about one upload's pipeline run, checked under Spec *)

FailureKinds == {"client_error", "api_error", "not_json"}

\* C6: whenever the delegate is attempted and fails (the client cannot be
\* built, the call raises, the content is no JSON) the mapping passed to
\* normalize_data is the heuristic resolver's; and after an attempted delegate
\* call, whatever its outcome, the run never ends in a fatal error.
C6_DelegateNeverFatal ==
    ai_result.called =>
        /\ (pc # "loaded" /\ ai_result.reply.kind \in FailureKinds)
              => schema = auto_detect_schema(df_raw.columns)
        /\ pc # "fatal"

\* a JSON object with exactly the six role keys, each a column of the table or null
ExpectedShape(v, cols) ==
    /\ v.kind = "dict"
    /\ Len(v.items) = Len(RoleKeys)
    /\ {v.items[i][1] : i \in 1..Len(v.items)} = Range(RoleKeys)
    /\ \A i \in 1..Len(v.items) : v.items[i][2] \in Range(cols) \cup {None}

\* C7: the delegate's parsed answer is the mapping used for normalization only
\* when it has the expected shape; a parsed answer of any other shape is
\* replaced by the heuristic resolver's mapping.
C7_ShapeValidated ==
    (ai_result.called /\ pc # "loaded" /\ ai_result.reply.kind = "json") =>
        IF ExpectedShape(ai_result.reply.value, df_raw.columns)
        THEN schema = ai_result.reply.value
        ELSE schema = auto_detect_schema(df_raw.columns)

-----------------------------------------------------------------------------
(* Claims about the aggregator, checked under SpecAggregate *)

SummaryKeys ==
    {"context", "total_records", "average_completion_pct", "status_distribution",
     "at_risk_preview", "risk_count", "unique_instructors", "unique_campuses"}

\* the digest of the normal structure with every count zero and no preview row
ZeroDigest(s) ==
    /\ SummaryKeys \subseteq DOMAIN s
    /\ s.total_records = 0
    /\ s.risk_count = 0
    /\ s.at_risk_preview = <<>>
    /\ s.status_distribution = {}
    /\ s.unique_instructors = 0
    /\ s.unique_campuses = 0

NoRisks == [campuses |-> <<>>, instructors |-> <<>>]

AtRiskRows(frame) == {r \in 1..Len(frame.rows) : frame.SCORE[r] = 0}

\* the cells of row r in the preview's columns
PreviewOf(frame, r) == [j \in 1..Len(cols_to_keep) |-> Column(frame, cols_to_keep[j])[r]]

RiskDigest(frame, s) ==
    /\ {"risk_count", "at_risk_preview"} \subseteq DOMAIN s
    /\ s.risk_count = Cardinality(AtRiskRows(frame))
    /\ Len(s.at_risk_preview) <= 5
    /\ \A i \in 1..Len(s.at_risk_preview) :
          \E r \in AtRiskRows(frame) : s.at_risk_preview[i] = PreviewOf(frame, r)
    /\ AtRiskRows(frame) = {} => (s.risk_count = 0 /\ s.at_risk_preview = <<>>)

GroupMeans(frame, name) ==
    {[key |-> k,
      sum2 |-> SumScore2(frame.SCORE, RowsWith(Column(frame, name), k)),
      n |-> Cardinality(RowsWith(Column(frame, name), k))] :
        k \in Unique(Column(frame, name))}

\* C10: for every non-empty canonical table the campuses listed are exactly
\* those whose mean SCORE is strictly below 0.6 (sum2 / (2 n) < 6 / 10), and
\* the instructors listed are exactly those whose mean SCORE is strictly below
\* 0.5 (sum2 / (2 n) < 5 / 10).
C10_RiskThresholds ==
    (pc = "aggregated" /\ ~IsEmpty(df)) =>
        /\ Range(risks.campuses) =
              {g.key : g \in {h \in GroupMeans(df, Str_CAMPUS) : 10 * h.sum2 < 12 * h.n}}
        /\ Range(risks.instructors) =
              {g.key : g \in {h \in GroupMeans(df, Str_INSTRUCTOR) : 10 * h.sum2 < 10 * h.n}}

\* a campus at exactly 0.6 and an instructor at exactly 0.5 are not listed,
\* while another campus is
C10_Witness ==
    /\ pc = "aggregated"
    /\ ~IsEmpty(df)
    /\ \E g \in GroupMeans(df, Str_CAMPUS) :
          10 * g.sum2 = 12 * g.n /\ g.key \notin Range(risks.campuses)
    /\ \E g \in GroupMeans(df, Str_INSTRUCTOR) :
          10 * g.sum2 = 10 * g.n /\ g.key \notin Range(risks.instructors)
    /\ risks.campuses # <<>>

-----------------------------------------------------------------------------
(* Claims about compute_instructor_performance, checked under SpecLabel and
   SpecPerformance *)

\* pct >= tenths / 10 and pct < tenths / 10 as floats compare: inf is above
\* every number, nan is in no order with any
PctAtLeast(p, tenths) == p.kind = "inf" \/ (p.kind = "num" /\ p.tenths >= tenths)
PctBelow(p, tenths) == p.kind = "num" /\ p.tenths < tenths

\* C11: in the performance table every row's Status is decided by its rounded
\* Completion_Pct alone: On Track when it is >= 80, Delayed when it is >= 50
\* and < 80, Critical when it is < 50; rows with the same Completion_Pct have
\* the same Status.
C11_LabelBoundaries ==
    pc \in {"aggregated", "labelled"} =>
        /\ \A i \in 1..Len(perf) :
              LET p == perf[i].Completion_Pct
              IN  /\ PctAtLeast(p, 800) => perf[i].Status = "On Track"
                  /\ (PctAtLeast(p, 500) /\ PctBelow(p, 800)) => perf[i].Status = "Delayed"
                  /\ PctBelow(p, 500) => perf[i].Status = "Critical"
        /\ \A i, j \in 1..Len(perf) :
              perf[i].Completion_Pct = perf[j].Completion_Pct
                  => perf[i].Status = perf[j].Status

\* 80.0 is On Track, 79.9 and 50.0 are Delayed, 49.9 is Critical
C11_Witness ==
    /\ pc = "labelled"
    /\ Len(perf) = 4
    /\ [i \in 1..4 |-> perf[i].Completion_Pct] = BoundaryPcts
    /\ [i \in 1..4 |-> perf[i].Status] = <<"On Track", "Delayed", "Delayed", "Critical">>

\* p < q as floats compare: nan is below nothing and nothing is below nan
PctLower(p, q) ==
    /\ p.kind = "num"
    /\ \/ q.kind = "inf"
       \/ q.kind = "num" /\ p.tenths < q.tenths

\* C12: for every non-empty canonical table with at least two (instructor,
\* campus) groups the rows of the performance table are in non-decreasing
\* order of Completion_Pct: no row has a lower Completion_Pct than a row
\* before it.
C12_SortedAscending ==
    (pc = "aggregated" /\ ~IsEmpty(df) /\ Len(perf) >= 2) =>
        \A i, j \in 1..Len(perf) :
            i < j => ~PctLower(perf[j].Completion_Pct, perf[i].Completion_Pct)

\* three groups: the group first in key order stands after a group with a
\* lower Completion_Pct, and the group without a Completion_Pct (0 / 0) is last
C12_Witness ==
    /\ pc = "aggregated"
    /\ Len(perf) = 3
    /\ perf[1].INSTRUCTOR = Str_Ravi
    /\ perf[2].INSTRUCTOR = Str_Asha
    /\ PctLower(perf[1].Completion_Pct, perf[2].Completion_Pct)
    /\ perf[3].Completion_Pct.kind = "nan"

\* the rows of the performance table that carry the pair of table row r
GroupsOf(inst, camp, r) ==
    {i \in 1..Len(perf) : perf[i].INSTRUCTOR = inst[r] /\ perf[i].CAMPUS = camp[r]}

\* C13: the performance table partitions the rows of the table by their
\* (instructor, campus) pair: every row belongs to exactly one group; a
\* group's Total_Items is the number of table rows with its pair, its
\* Completed_Score_Sum the sum of their SCORE and its Completion_Pct
\* (sum / count) x 100 rounded to one decimal; the Total_Items add up to the
\* number of rows and every Completion_Pct lies between 0 and 100.
C13_GroupsPartitionRows ==
    (pc = "aggregated" /\ ~IsEmpty(df)) =>
        LET inst == Column(df, Str_INSTRUCTOR)
            camp == Column(df, Str_CAMPUS)
        IN  /\ \A r \in RowIds(df) : Cardinality(GroupsOf(inst, camp, r)) = 1
            /\ \A i \in 1..Len(perf) :
                  LET R == PairRows(inst, camp, <<perf[i].INSTRUCTOR, perf[i].CAMPUS>>)
                  IN  /\ perf[i].Total_Items = Cardinality(R)
                      /\ perf[i].Completed_Score_Sum = SumScore2(df.SCORE, R)
                      /\ perf[i].Completion_Pct = Pct(SumScore2(df.SCORE, R), Cardinality(R))
                      /\ perf[i].Completion_Pct.kind = "num"
                      /\ perf[i].Completion_Pct.tenths \in 0..1000
            /\ SumScore2([i \in 1..Len(perf) |-> perf[i].Total_Items], 1..Len(perf))
                  = Len(df.rows)

-----------------------------------------------------------------------------
(* Claim about compute_kpis and compute_risk_factors, checked under SpecAggregate *)

\* C14: for every non-empty canonical table at_risk_instructors of compute_kpis
\* is the number of distinct instructors whose mean SCORE is strictly below 0.5
\* (sum2 / (2 n) < 5 / 10), and equals the length of the instructors list of
\* compute_risk_factors on the same table.
C14_AtRiskInstructors ==
    (pc = "aggregated" /\ ~IsEmpty(df)) =>
        /\ kpis.at_risk_instructors =
              Cardinality({g \in GroupMeans(df, Str_INSTRUCTOR) : 10 * g.sum2 < 10 * g.n})
        /\ kpis.at_risk_instructors = Len(risks.instructors)

\* two instructors, one below 0.5 and counted, one at exactly 0.5 and not
C14_Witness ==
    /\ pc = "aggregated"
    /\ ~IsEmpty(df)
    /\ kpis.num_instructors = 2
    /\ kpis.at_risk_instructors = 1
    /\ Len(risks.instructors) = 1
    /\ \E g \in GroupMeans(df, Str_INSTRUCTOR) :
          10 * g.sum2 = 10 * g.n /\ g.key \notin Range(risks.instructors)

=============================================================================
